---- MODULE Spec2Model ----
(***************************************************************************)
(* helpers/config.js of adamant: assembly of the node configuration.       *)
(*                                                                         *)
(* JavaScript values are modelled as tagged records.  A string is the      *)
(* sequence of its text tokens, so that split(',') and split(':') and the  *)
(* numeric conversion +s are computed, not assumed.  A mapping is a        *)
(* function from keys to values, a sequence is a TLA+ sequence.            *)
(***************************************************************************)
EXTENDS Integers, Sequences, FiniteSets, TLC

VARIABLES
    pc,          \* position of the computation under study
    cdObject,    \* cleanDeep: the argument `object`
    cdOptions,   \* cleanDeep: the five option flags
    cdResult,    \* cleanDeep: value returned by the first application
    cdResult2,   \* cleanDeep: value returned by applying it to cdResult
    exPeers,     \* extractPeersList: the argument `peers`
    exDefaultPort, \* extractPeersList: the argument `defaultPort`
    exResult,    \* extractPeersList: the returned list
    mgSources,   \* _.merge: <<defaults, networkCustom, runtime, prunedCommandLine>>
    mgResult,    \* _.merge: the merged object
    vfBefore,    \* validateForce: the config before the first run
    vfConfig,    \* validateForce: the config, mutated in place
    vfFirst,     \* validateForce: the config as the first run left it
    program,     \* Config: the parsed command-line options
    env,         \* Config: process.env
    genesisBlock,
    constants,   \* Config: <<defaultConstants, customConstants>>
    exceptions,  \* Config: <<defaultExceptions, customExceptions>>
    defaultConfig,
    customConfig,
    runtimeConfig,
    rawCommandLineConfig, \* Config: commandLineConfig before cleanDeep
    commandLineConfig,
    appConfig,
    valid,
    exitCode,    \* Config: status of process.exit, None while running
    returned     \* Config: the returned object, None while there is none

cdVars == <<cdObject, cdOptions, cdResult, cdResult2>>
exVars == <<exPeers, exDefaultPort, exResult>>
mgVars == <<mgSources, mgResult>>
vfVars == <<vfBefore, vfConfig, vfFirst>>
inVars == <<program, env>>
ldVars == <<genesisBlock, constants, exceptions, defaultConfig, customConfig>>
cfVars == <<inVars, ldVars, runtimeConfig, rawCommandLineConfig,
            commandLineConfig, appConfig, valid, exitCode, returned>>
vars == <<pc, cdVars, exVars, mgVars, vfVars, cfVars>>

----------------------------------------------------------------------------
(* JavaScript values *)

Undef == [t |-> "undef"]
Null == [t |-> "null"]
NaN == [t |-> "nan"]
Bool(b) == [t |-> "bool", b |-> b]
Num(n) == [t |-> "num", n |-> n]
Str(s) == [t |-> "str", s |-> s]
Obj(o) == [t |-> "obj", o |-> o]

EmptyMap == [k \in {} |-> Undef]

\* an array is its elements a and, being an object, its named properties o
\* (none unless _.merge has merged a mapping into it)
ArrWith(a, o) == [t |-> "arr", a |-> a, o |-> o]
Arr(a) == ArrWith(a, EmptyMap)

IsArr(v) == v.t = "arr"
IsObj(v) == v.t = "obj"
IsStr(v) == v.t = "str"

\* obj[key] of JavaScript: undefined when the key is absent
Get(v, k) == IF IsObj(v) /\ k \in DOMAIN v.o THEN v.o[k] ELSE Undef

None == [t |-> "none"]

\* truthiness, as tested by || and if
Truthy(v) ==
    CASE v.t = "undef" -> FALSE
      [] v.t = "null" -> FALSE
      [] v.t = "nan" -> FALSE
      [] v.t = "bool" -> v.b
      [] v.t = "num" -> v.n # 0
      [] v.t = "str" -> v.s # <<>>
      [] OTHER -> TRUE

\* a || b
Or(a, b) == IF Truthy(a) THEN a ELSE b

\* String.prototype.split(sep) on a token sequence: the pieces between the
\* separators, one empty piece for the empty string
RECURSIVE Split(_, _)
Split(s, sep) ==
    IF s = <<>> THEN << <<>> >>
    ELSE LET rest == Split(Tail(s), sep)
         IN IF Head(s) = sep THEN << <<>> >> \o rest
            ELSE << <<Head(s)>> \o Head(rest) >> \o Tail(rest)

----------------------------------------------------------------------------
(* cleanDeep *)

\* a pruner that tests falsiness (!value) instead of the five strict shapes
ExcludedFalsy(value, options) ==
    \/ options.emptyObjects /\ IsObj(value) /\ DOMAIN value.o = {}
    \/ options.emptyArrays /\ IsArr(value) /\ Len(value.a) = 0
    \/ options.emptyStrings /\ value \in {Str(<<>>), Num(0), Bool(FALSE)}
    \/ options.nullValues /\ value = Null
    \/ options.undefinedValues /\ value = Undef

\* the five early returns of the iteratee, applied to the recursed value
Excluded(value, options) ==
    \/ options.emptyObjects /\ IsObj(value) /\ DOMAIN value.o = {}
    \/ options.emptyArrays /\ IsArr(value) /\ Len(value.a) = 0
    \/ options.emptyStrings /\ value = Str(<<>>)
    \/ options.nullValues /\ value = Null
    \/ options.undefinedValues /\ value = Undef

RECURSIVE cleanDeep(_, _)

\* the value the iteratee tests: arrays and plain objects are recursed into
Recursed(value, options) ==
    IF IsArr(value) \/ IsObj(value) THEN cleanDeep(value, options) ELSE value

\* _.transform over an array: kept values are pushed in iteration order
RECURSIVE TransformArray(_, _)
TransformArray(a, options) ==
    IF a = <<>> THEN <<>>
    ELSE LET value == Recursed(Head(a), options)
             rest == TransformArray(Tail(a), options)
         IN IF Excluded(value, options) THEN rest ELSE <<value>> \o rest

\* a pruner that evaluates the parent before its children are pruned
TransformObjectTopDown(o, options) ==
    LET kept == {key \in DOMAIN o : ~Excluded(o[key], options)}
    IN [key \in kept |-> Recursed(o[key], options)]

\* _.transform over a plain object: kept values are stored under their key
TransformObject(o, options) ==
    LET kept == {key \in DOMAIN o : ~Excluded(Recursed(o[key], options), options)}
    IN [key \in kept |-> Recursed(o[key], options)]

cleanDeep(object, options) ==
    IF IsArr(object) THEN Arr(TransformArray(object.a, options))
    ELSE IF IsObj(object) THEN Obj(TransformObject(object.o, options))
    ELSE Obj(EmptyMap)

\* the defaults of the destructured second parameter
DefaultOptions ==
    [emptyArrays |-> TRUE, emptyObjects |-> TRUE, emptyStrings |-> TRUE,
     nullValues |-> TRUE, undefinedValues |-> TRUE]

----------------------------------------------------------------------------
(* extractPeersList *)

\* a parser that leaves wsPort unset when the entry has no port
PeerRecordNoDefault(peer, defaultPort) ==
    Obj(("ip" :> Str(peer[1]))
        @@ ("wsPort" :> IF Len(peer) >= 2 THEN Str(peer[2]) ELSE Undef))

\* the record built from peer = entry.split(':'): two shift()s, the second
\* one undefined when the list is exhausted, and `|| defaultPort`
PeerRecord(peer, defaultPort) ==
    Obj(("ip" :> Str(peer[1]))
        @@ ("wsPort" :> Or(IF Len(peer) >= 2 THEN Str(peer[2]) ELSE Undef,
                           defaultPort)))

extractPeersList(peers, defaultPort) ==
    IF IsStr(peers)
    THEN LET entries == Split(peers.s, ",")
         IN Arr([i \in 1..Len(entries) |->
                    PeerRecord(Split(entries[i], ":"), defaultPort)])
    ELSE Arr(<<>>)

----------------------------------------------------------------------------
(* _.merge (lodash 4), as called on the four configuration sources *)

Max(S) == CHOOSE m \in S : \A n \in S : n <= m

RECURSIVE baseMerge(_, _)

\* a merge that assigns every source value over the destination's
\* (Object.assign semantics, no recursion into mappings)
MergedValueShallow(inObject, objValue, srcValue) ==
    IF srcValue = Undef /\ inObject THEN objValue ELSE srcValue

\* the value stored under a key of the source: baseMergeDeep for arrays and
\* plain objects (the destination's array, object or a fresh one is merged
\* into), assignMergeValue otherwise (undefined never replaces an existing key)
MergedValue(inObject, objValue, srcValue) ==
    IF IsArr(srcValue)
    THEN IF IsArr(objValue)
         THEN baseMerge(objValue, srcValue)
         ELSE baseMerge(Arr(<<>>), srcValue)
    ELSE IF IsObj(srcValue)
    THEN IF IsObj(objValue) \/ IsArr(objValue)
         THEN baseMerge(objValue, srcValue)
         ELSE baseMerge(Obj(EmptyMap), srcValue)
    ELSE IF srcValue = Undef /\ inObject THEN objValue
    ELSE srcValue

\* named properties of object after those of source are merged in
MergedProperties(object, source) ==
    [k \in DOMAIN object \cup DOMAIN source |->
        IF k \notin DOMAIN source THEN object[k]
        ELSE MergedValue(k \in DOMAIN object,
                         IF k \in DOMAIN object THEN object[k] ELSE Undef,
                         source[k])]

\* elements of object after those of source are merged in, index by index
MergedElements(object, source) ==
    [i \in 1..Max({Len(object), Len(source)}) |->
        IF i > Len(source) THEN object[i]
        ELSE MergedValue(i <= Len(object),
                         IF i <= Len(object) THEN object[i] ELSE Undef,
                         source[i])]

\* baseMerge(object, source): every key of source is merged into object
baseMerge(object, source) ==
    IF IsArr(source)
    THEN ArrWith(MergedElements(object.a, source.a),
                 MergedProperties(object.o, source.o))
    ELSE IF IsArr(object)
    THEN ArrWith(object.a, MergedProperties(object.o, source.o))
    ELSE Obj(MergedProperties(object.o, source.o))

\* _.merge(object, ...sources): the sources are merged in from left to right
RECURSIVE merge(_, _)
merge(object, sources) ==
    IF sources = <<>> THEN object
    ELSE merge(baseMerge(object, Head(sources)), Tail(sources))

----------------------------------------------------------------------------
(* Config: the values it computes *)

Digits == {"0", "1", "2", "3", "4", "5", "6", "7", "8", "9"}

DigitValue(tok) ==
    CASE tok = "0" -> 0 [] tok = "1" -> 1 [] tok = "2" -> 2 [] tok = "3" -> 3
      [] tok = "4" -> 4 [] tok = "5" -> 5 [] tok = "6" -> 6 [] tok = "7" -> 7
      [] tok = "8" -> 8 [] tok = "9" -> 9

RECURSIVE Decimal(_)
Decimal(s) == IF s = <<>> THEN 0 ELSE 10 * Decimal(SubSeq(s, 1, Len(s) - 1)) + DigitValue(s[Len(s)])

\* unary plus: NaN for undefined and for text that is no number, 0 for ""
ToNumber(v) ==
    IF v.t = "num" THEN v
    ELSE IF IsStr(v) /\ \A i \in 1..Len(v.s) : v.s[i] \in Digits THEN Num(Decimal(v.s))
    ELSE NaN

\* a default port that ignores the network config's port
DefaultPortSkippingCustom(prog, environment, custom, default) ==
    Or(Or(ToNumber(prog.port), environment.ADAMANT_HTTP_PORT), Get(default, "port"))

\* the second argument of extractPeersList
DefaultPort(prog, environment, custom, default) ==
    Or(Or(Or(ToNumber(prog.port), environment.ADAMANT_HTTP_PORT),
          Get(custom, "port")),
       Get(default, "port"))

RootPath == Str(<<"/adamant">>)

PackageJson ==
    Obj(("version" :> Str(<<"0.8.0">>))
        @@ ("config" :> Obj("minVersion" :> Str(<<"0.6.0">>))))

RuntimeConfig(network, nonce, genesis) ==
    Obj(("network" :> network)
        @@ ("root" :> RootPath)
        @@ ("nonce" :> nonce)
        @@ ("version" :> Get(PackageJson, "version"))
        @@ ("minVersion" :> Get(Get(PackageJson, "config"), "minVersion"))
        @@ ("nethash" :> Get(genesis, "payloadHash")))

\* commandLineConfig as first assigned; program.database is no declared option
CommandLineConfig(prog, environment, custom, default) ==
    Obj(("port" :> Or(Or(ToNumber(prog.port), environment.ADAMANT_HTTP_PORT), Null))
        @@ ("address" :> prog.address)
        @@ ("consoleLogLevel" :> Or(prog.log, environment.ADAMANT_CONSOLE_LOG_LEVEL))
        @@ ("db" :> Obj("database" :> Undef))
        @@ ("loading" :> Obj("snapshotRound" :> prog.snapshot))
        @@ ("peers" :> Obj("list" :>
                extractPeersList(Or(prog.peers, environment.ADAMANT_PEERS),
                                 DefaultPort(prog, environment, custom, default))))
        @@ ("coverage" :> Bool(environment.NODE_ENV = Str(<<"test">>))))

\* a pipeline that merges the command-line source as it is
Unpruned(raw) == raw

\* commandLineConfig = cleanDeep(commandLineConfig)
PrunedCommandLineConfig(raw) == cleanDeep(raw, DefaultOptions)

\* validator.validate(appConfig, configSchema.config): the required fields
\* are present and type-correct (port an integer from 1 to 65535, nethash a
\* string, forging.force a boolean)
Validate(config) ==
    /\ Get(config, "port").t = "num"
    /\ Get(config, "port").n \in 1..65535
    /\ Get(config, "nethash").t = "str"
    /\ Get(Get(config, "forging"), "force").t = "bool"

\* object[key] = value
Assign(object, key, value) ==
    Obj([k \in DOMAIN object.o \cup {key} |-> IF k = key THEN value ELSE object.o[k]])

\* a pipeline that goes on to attach the sub-structures whatever the validator said
StepAfterValidationLenient(ok) == "attachGenesisBlock"

\* if (!valid) { ... process.exit(1) } else { ... }
StepAfterValidation(ok) == IF ok THEN "attachGenesisBlock" ELSE "exited"

----------------------------------------------------------------------------
(* validateForce *)

\* Array.prototype.indexOf: first position (from 0) of a strictly equal
\* element, -1 when there is none
IndexOf(a, x) ==
    IF \E i \in 1..Len(a) : a[i] = x
    THEN (CHOOSE i \in 1..Len(a) : a[i] = x /\ \A j \in 1..(i - 1) : a[j] # x) - 1
    ELSE -1

\* configData with forging.force set to b
WithForce(configData, b) ==
    Obj([configData.o EXCEPT !["forging"] =
            Obj([configData.o["forging"].o EXCEPT !["force"] = b])])

\* an override that sets force to "nethash is unknown" whatever it was
validateForceAssigning(configData) ==
    WithForce(configData,
              Bool(IndexOf(Get(Get(configData, "constants"), "nethashes").a,
                           Get(configData, "nethash")) = -1))

\* the configData that validateForce leaves behind
validateForce(configData) ==
    IF Truthy(Get(Get(configData, "forging"), "force"))
    THEN LET index == IndexOf(Get(Get(configData, "constants"), "nethashes").a,
                              Get(configData, "nethash"))
         IN IF index # -1 THEN WithForce(configData, Bool(FALSE)) ELSE configData
    ELSE configData

----------------------------------------------------------------------------
(* Bounded universe of nested values *)

MaxDepth == 2
MaxLen == 2

Leaves == {Undef, Null, Str(<<>>), Str(<<"x">>), Num(0), Bool(FALSE)}

RECURSIVE Nested(_)
Nested(d) ==
    IF d = 0 THEN Leaves
    ELSE LET inner == Nested(d - 1)
         IN Leaves \cup {Arr(<<>>), Obj(EmptyMap)}
                   \cup {Arr(<<v>>) : v \in inner}
                   \cup {Obj("a" :> v) : v \in inner}

SeqsUpTo(S, n) == UNION {[1..m -> S] : m \in 0..n}

Roots ==
    LET children == Nested(MaxDepth - 1)
    IN {Arr(s) : s \in SeqsUpTo(children, MaxLen)}
       \cup {Obj(o) : o \in UNION {[K -> children] : K \in SUBSET {"a", "b"}}}

AllOptions ==
    [emptyArrays : BOOLEAN, emptyObjects : BOOLEAN, emptyStrings : BOOLEAN,
     nullValues : BOOLEAN, undefinedValues : BOOLEAN]

MaxPeersLen == 5

PeerTokens == {"10.0.0.1", "10.0.0.2", "36668", ":", ","}

PeersArguments ==
    {Str(s) : s \in SeqsUpTo(PeerTokens, MaxPeersLen)}
    \cup {Undef, Num(36668), Obj(EmptyMap), Arr(<<Str(<<"10.0.0.1">>)>>)}

DefaultPorts == {Undef, Num(36666), Str(<<"36668">>)}

MaxList == 2

InnerKeys == {"name", "pool"}
InnerValues == {Str(<<"x">>), Str(<<"y">>), Num(5)}
ListValues == {Num(1), Num(2)}

\* what a JSON configuration file may hold under the key db
FileValues ==
    {Num(1), Num(2), Null}
    \cup {Obj(m) : m \in UNION {[K -> InnerValues] : K \in SUBSET InnerKeys}}
    \cup {Arr(l) : l \in SeqsUpTo(ListValues, MaxList)}

FileSources == {Obj(EmptyMap)} \cup {Obj("db" :> v) : v \in FileValues}

\* the runtime source holds scalars, undefined when the package or genesis
\* data lacks the field
RuntimeSources == {Obj(EmptyMap), Obj("db" :> Undef), Obj("db" :> Str(<<"y">>))}

\* the command-line source has been through cleanDeep
PrunedSources == {cleanDeep(f, DefaultOptions) : f \in FileSources}

CdIdle == cdObject = Undef /\ cdOptions = DefaultOptions
          /\ cdResult = Undef /\ cdResult2 = Undef
ExIdle == exPeers = Undef /\ exDefaultPort = Undef /\ exResult = Undef
MgIdle == mgSources = <<>> /\ mgResult = Undef
VfIdle == vfBefore = Undef /\ vfConfig = Undef /\ vfFirst = Undef
CfIdle ==
    /\ program = Undef /\ env = Undef /\ genesisBlock = Undef
    /\ constants = <<>> /\ exceptions = <<>>
    /\ defaultConfig = Undef /\ customConfig = Undef /\ runtimeConfig = Undef
    /\ rawCommandLineConfig = Undef /\ commandLineConfig = Undef
    /\ appConfig = Undef /\ valid = Undef /\ exitCode = None /\ returned = None

----------------------------------------------------------------------------
(* Specification of cleanDeep applied once and then to its own result *)

CleanInit ==
    /\ pc = "clean"
    /\ cdObject \in Roots
    /\ cdOptions \in AllOptions
    /\ cdResult = Undef
    /\ cdResult2 = Undef
    /\ ExIdle /\ MgIdle /\ VfIdle /\ CfIdle

Clean ==
    /\ pc = "clean"
    /\ cdResult' = cleanDeep(cdObject, cdOptions)
    /\ pc' = "cleaned"
    /\ UNCHANGED <<cdObject, cdOptions, cdResult2, exVars, mgVars, vfVars, cfVars>>

CleanAgain ==
    /\ pc = "cleaned"
    /\ cdResult2' = cleanDeep(cdResult, cdOptions)
    /\ pc' = "recleaned"
    /\ UNCHANGED <<cdObject, cdOptions, cdResult, exVars, mgVars, vfVars, cfVars>>

CleanNext == Clean \/ CleanAgain

SpecClean == CleanInit /\ [][CleanNext]_vars

----------------------------------------------------------------------------
(* Properties of cleanDeep *)

\* the option that governs a value, "none" for a value that is no empty shape
ShapeOf(v) ==
    CASE v = Arr(<<>>) -> "emptyArrays"
      [] v = Obj(EmptyMap) -> "emptyObjects"
      [] v = Str(<<>>) -> "emptyStrings"
      [] v = Null -> "nullValues"
      [] v = Undef -> "undefinedValues"
      [] OTHER -> "none"

EnabledShape(v, options) == ShapeOf(v) # "none" /\ options[ShapeOf(v)]

RECURSIVE KeepUnlessShape(_, _)
KeepUnlessShape(s, options) ==
    IF s = <<>> THEN <<>>
    ELSE IF EnabledShape(Head(s), options) THEN KeepUnlessShape(Tail(s), options)
    ELSE <<Head(s)>> \o KeepUnlessShape(Tail(s), options)

\* out is in with exactly those nodes removed that, once their own children
\* are pruned, are an enabled empty shape
RECURSIVE PrunedAsClaimed(_, _, _)
PrunedAsClaimed(in, out, options) ==
    CASE IsObj(in) ->
            /\ IsObj(out)
            /\ DOMAIN out.o \subseteq DOMAIN in.o
            /\ \A k \in DOMAIN in.o :
                 LET c == IF k \in DOMAIN out.o THEN out.o[k]
                          ELSE Recursed(in.o[k], options)
                 IN /\ PrunedAsClaimed(in.o[k], c, options)
                    /\ (k \notin DOMAIN out.o) <=> EnabledShape(c, options)
      [] IsArr(in) ->
            LET cs == [i \in 1..Len(in.a) |-> Recursed(in.a[i], options)]
            IN /\ IsArr(out)
               /\ out.a = KeepUnlessShape(cs, options)
               /\ \A i \in 1..Len(in.a) : PrunedAsClaimed(in.a[i], cs[i], options)
      [] OTHER -> out = in

\* number of occurrences of the scalar x in v, at any depth
RECURSIVE Count(_, _)
RECURSIVE CountSeq(_, _)
RECURSIVE CountKeys(_, _, _)
Count(v, x) ==
    IF IsArr(v) THEN CountSeq(v.a, x)
    ELSE IF IsObj(v) THEN CountKeys(v.o, DOMAIN v.o, x)
    ELSE IF v = x THEN 1 ELSE 0
CountSeq(s, x) == IF s = <<>> THEN 0 ELSE Count(Head(s), x) + CountSeq(Tail(s), x)
CountKeys(o, K, x) ==
    IF K = {} THEN 0
    ELSE LET k == CHOOSE k \in K : TRUE
         IN Count(o[k], x) + CountKeys(o, K \ {k}, x)

\* the children of a container
Children(v) ==
    IF IsArr(v) THEN {v.a[i] : i \in 1..Len(v.a)}
    ELSE IF IsObj(v) THEN {v.o[k] : k \in DOMAIN v.o}
    ELSE {}

\* no node below the root of v is an enabled empty shape
RECURSIVE NoShapeBelow(_, _)
NoShapeBelow(v, options) ==
    \A c \in Children(v) : ~EnabledShape(c, options) /\ NoShapeBelow(c, options)

Meaningful == {Num(0), Bool(FALSE), Str(<<"x">>)}

\* C4: cleanDeep removes a node below the root if and only if, after the
\* node's own children have been pruned, it is an enabled empty shape (empty
\* sequence, empty mapping, empty string, null, undefined); no enabled empty
\* shape is left in the result, and every 0, false and non-empty string of
\* the input is still in the result.
C4_PrunesExactlyEmptyShapes ==
    pc # "clean" =>
        /\ PrunedAsClaimed(cdObject, cdResult, cdOptions)
        /\ NoShapeBelow(cdResult, cdOptions)
        /\ \A x \in Meaningful : Count(cdResult, x) = Count(cdObject, x)

\* a mapping that is empty only once its null child is pruned goes, 0 stays
C4_Witness ==
    /\ pc = "cleaned"
    /\ cdOptions = DefaultOptions
    /\ cdObject = Obj(("a" :> Obj("a" :> Null)) @@ ("b" :> Num(0)))
    /\ cdResult = Obj("b" :> Num(0))

\* C5: pruning is idempotent: for any nested input and any fixed options,
\* cleanDeep(cleanDeep(x)) equals cleanDeep(x).
C5_Idempotent == pc = "recleaned" => cdResult2 = cdResult

\* the second application acted on a result the first one had changed by
\* removing a container emptied by the pruning of its children
C5_Witness ==
    /\ pc = "recleaned"
    /\ cdObject = Obj("a" :> Obj("a" :> Null))
    /\ cdOptions = DefaultOptions
    /\ cdResult = Obj(EmptyMap)
    /\ cdResult2 = cdResult

----------------------------------------------------------------------------
(* Specification of extractPeersList *)

PeersInit ==
    /\ pc = "extract"
    /\ exPeers \in PeersArguments
    /\ exDefaultPort \in DefaultPorts
    /\ exResult = Undef
    /\ CdIdle /\ MgIdle /\ VfIdle /\ CfIdle

Extract ==
    /\ pc = "extract"
    /\ exResult' = extractPeersList(exPeers, exDefaultPort)
    /\ pc' = "extracted"
    /\ UNCHANGED <<exPeers, exDefaultPort, cdVars, mgVars, vfVars, cfVars>>

PeersNext == Extract

SpecPeers == PeersInit /\ [][PeersNext]_vars

\* the tokens of s before the first sep
RECURSIVE Before(_, _)
Before(s, sep) ==
    IF s = <<>> \/ Head(s) = sep THEN <<>>
    ELSE <<Head(s)>> \o Before(Tail(s), sep)

\* the tokens of s after the first sep, <<>> when there is none
RECURSIVE After(_, _)
After(s, sep) ==
    IF s = <<>> THEN <<>>
    ELSE IF Head(s) = sep THEN Tail(s)
    ELSE After(Tail(s), sep)

Occurrences(s, tok) == Cardinality({i \in 1..Len(s) : s[i] = tok})

\* the i-th comma-separated entry of s
RECURSIVE Entry(_, _)
Entry(s, i) == IF i = 1 THEN Before(s, ",") ELSE Entry(After(s, ","), i - 1)

PortSegment(entry) == Before(After(entry, ":"), ":")

ExampleInput == Str(<<"10.0.0.1", ":", "36668", ",", "10.0.0.2">>)

\* C6 as stated: one record per comma-separated entry, in input order, ip the
\* text before the first ':', wsPort the port segment when the entry has one
\* and defaultPort otherwise, the example yielding the numbers 36668 and
\* 36666; the empty sequence for every non-string input.
C6_AsStated ==
    pc = "extracted" =>
        IF IsStr(exPeers)
        THEN /\ IsArr(exResult)
             /\ Len(exResult.a) = Occurrences(exPeers.s, ",") + 1
             /\ \A i \in 1..Len(exResult.a) :
                  LET entry == Entry(exPeers.s, i)
                  IN /\ DOMAIN exResult.a[i].o = {"ip", "wsPort"}
                     /\ exResult.a[i].o["ip"] = Str(Before(entry, ":"))
                     /\ exResult.a[i].o["wsPort"] =
                           IF Occurrences(entry, ":") > 0
                           THEN Str(PortSegment(entry))
                           ELSE exDefaultPort
             /\ exPeers = ExampleInput /\ exDefaultPort = Num(36666) =>
                  exResult = Arr(<<
                      Obj(("ip" :> Str(<<"10.0.0.1">>)) @@ ("wsPort" :> Num(36668))),
                      Obj(("ip" :> Str(<<"10.0.0.2">>)) @@ ("wsPort" :> Num(36666)))>>)
        ELSE exResult = Arr(<<>>)

\* C6 (amended): one record per comma-separated entry, in input order, ip the
\* text before the first ':', wsPort the text of the port segment, kept as a
\* string, when that segment is non-empty and defaultPort otherwise (also for
\* an entry ending in ':'), the example yielding the string "36668" and the
\* number 36666; the empty sequence for every non-string input.
C6_PeerParsing ==
    pc = "extracted" =>
        IF IsStr(exPeers)
        THEN /\ IsArr(exResult)
             /\ Len(exResult.a) = Occurrences(exPeers.s, ",") + 1
             /\ \A i \in 1..Len(exResult.a) :
                  LET entry == Entry(exPeers.s, i)
                  IN /\ DOMAIN exResult.a[i].o = {"ip", "wsPort"}
                     /\ exResult.a[i].o["ip"] = Str(Before(entry, ":"))
                     /\ exResult.a[i].o["wsPort"] =
                           IF PortSegment(entry) # <<>>
                           THEN Str(PortSegment(entry))
                           ELSE exDefaultPort
             /\ exPeers = ExampleInput /\ exDefaultPort = Num(36666) =>
                  exResult = Arr(<<
                      Obj(("ip" :> Str(<<"10.0.0.1">>)) @@ ("wsPort" :> Str(<<"36668">>))),
                      Obj(("ip" :> Str(<<"10.0.0.2">>)) @@ ("wsPort" :> Num(36666)))>>)
        ELSE exResult = Arr(<<>>)

\* the example of the claim has been parsed
C6_Witness ==
    /\ pc = "extracted"
    /\ exPeers = ExampleInput
    /\ exDefaultPort = Num(36666)
    /\ Len(exResult.a) = 2
    /\ exResult.a[2].o["wsPort"] = Num(36666)

----------------------------------------------------------------------------
(* Specification of the merge of the four sources *)

MergeInit ==
    /\ pc = "merge"
    /\ mgSources \in {<<d, n, r, c>> : d \in FileSources, n \in FileSources,
                                       r \in RuntimeSources, c \in PrunedSources}
    /\ mgResult = Undef
    /\ CdIdle /\ ExIdle /\ VfIdle /\ CfIdle

Merge ==
    /\ pc = "merge"
    /\ mgResult' = merge(mgSources[1], Tail(mgSources))
    /\ pc' = "merged"
    /\ UNCHANGED <<mgSources, cdVars, exVars, vfVars, cfVars>>

MergeNext == Merge

SpecMerge == MergeInit /\ [][MergeNext]_vars

\* the value at a key path, undefined when the path does not resolve
RECURSIVE At(_, _)
At(v, path) == IF path = <<>> THEN v ELSE At(Get(v, Head(path)), Tail(path))

\* the sources that hold a value at the path
Holders(path) == {i \in 1..Len(mgSources) : At(mgSources[i], path) # Undef}

\* no source holds a sequence under db
SequenceFree == \A i \in 1..Len(mgSources) : ~IsArr(Get(mgSources[i], "db"))

\* C1: over sources holding scalars and mappings, the merged config holds at
\* every key path the value of the latest source that has the path: a scalar
\* of the latest holder wins outright, and mappings held by successive
\* sources are merged key by key, each key taking the value of the latest of
\* them that has it, so keys present only in an earlier source survive.
C1_Precedence ==
    pc = "merged" /\ SequenceFree =>
        LET top == Holders(<<"db">>)
        IN IF top = {} THEN At(mgResult, <<"db">>) = Undef
           ELSE LET v == At(mgSources[Max(top)], <<"db">>)
                    cut == Max({0} \cup {i \in top : ~IsObj(Get(mgSources[i], "db"))})
                IN IF ~IsObj(v) THEN At(mgResult, <<"db">>) = v
                   ELSE /\ IsObj(At(mgResult, <<"db">>))
                        /\ DOMAIN At(mgResult, <<"db">>).o \subseteq InnerKeys
                        /\ \A q \in InnerKeys :
                             LET hs == {i \in Holders(<<"db", q>>) : i > cut}
                             IN At(mgResult, <<"db", q>>) =
                                  IF hs = {} THEN Undef
                                  ELSE At(mgSources[Max(hs)], <<"db", q>>)

\* defaults {db:{name:"x",pool:5}}, command line {db:{name:"y"}}: pool survives
C1_Witness ==
    /\ pc = "merged"
    /\ mgSources = <<Obj("db" :> Obj(("name" :> Str(<<"x">>)) @@ ("pool" :> Num(5)))),
                     Obj(EmptyMap), Obj(EmptyMap),
                     Obj("db" :> Obj("name" :> Str(<<"y">>)))>>
    /\ mgResult = Obj("db" :> Obj(("name" :> Str(<<"y">>)) @@ ("pool" :> Num(5))))

\* C2: a sequence in a later source replaces the earlier source's sequence at
\* the same key wholesale: the merged sequence is exactly the latest
\* source's sequence.
C2_SequencesReplaced ==
    pc = "merged" =>
        \A i \in Holders(<<"db">>) :
            /\ i = Max(Holders(<<"db">>))
            /\ IsArr(Get(mgSources[i], "db"))
            => At(mgResult, <<"db">>) = Get(mgSources[i], "db")

----------------------------------------------------------------------------
(* Specification of Config *)

Failure == [t |-> "failure"]

Ports == {Undef, Str(<<"7">>), Str(<<"x">>)}

Programs ==
    [port : Ports,
     peers : {Undef, Str(<<"10.0.0.1", ":", "9", ",", "10.0.0.2">>)},
     address : {Undef, Str(<<"127.0.0.1">>)},
     log : {Undef},
     snapshot : {Undef, Str(<<"3">>)},
     network : {Undef},
     config : {Undef}]

Environments ==
    [ADAMANT_HTTP_PORT : {Undef, Str(<<>>), Str(<<"8">>)},
     ADAMANT_PEERS : {Undef, Str(<<"10.0.0.3">>)},
     ADAMANT_CONSOLE_LOG_LEVEL : {Undef, Str(<<>>)},
     NODE_ENV : {Undef, Str(<<"test">>), Str(<<"production">>)},
     ADAMANT_NETWORK : {Undef},
     ADAMANT_CONFIG_FILE : {Undef}]

Nonces == {Str(<<"n1">>)}

GenesisBlocks == {Obj("payloadHash" :> Str(<<"H1">>)), Obj("payloadHash" :> Str(<<"H3">>))}

DefaultConstants == Obj("nethashes" :> Arr(<<Str(<<"H1">>), Str(<<"H2">>)>>))
CustomConstants == Obj(EmptyMap)
DefaultExceptions == Obj("votes" :> Arr(<<>>))
CustomExceptions == Obj(EmptyMap)

FilePeer(ip, wsPort) == Obj(("ip" :> Str(<<ip>>)) @@ ("wsPort" :> Num(wsPort)))

\* optional entry of a configuration file: absent when the value is undefined
Entry1(key, value) == IF value = Undef THEN EmptyMap ELSE key :> value

DefaultConfigs ==
    {Obj(Entry1("port", port)
         @@ ("address" :> Str(<<"0.0.0.0">>))
         @@ ("consoleLogLevel" :> Str(<<"info">>))
         @@ ("db" :> Obj("database" :> Str(<<"adamant">>)))
         @@ ("loading" :> Obj("snapshotRound" :> Num(0)))
         @@ ("peers" :> Obj("list" :> Arr(<<>>)))
         @@ ("forging" :> Obj("force" :> Bool(force)))
         @@ ("coverage" :> Bool(TRUE))) :
        port \in {Undef, Num(5)}, force \in BOOLEAN}

CustomConfigs ==
    {Obj(Entry1("port", port) @@ Entry1("peers", peers)) :
        port \in {Undef, Num(6), Num(0), Null},
        peers \in {Undef, Obj("list" :> Arr(<<FilePeer("10.0.0.8", 1), FilePeer("10.0.0.9", 2)>>))}}

ConfigInit ==
    /\ pc = "loadGenesisBlock"
    /\ program \in Programs
    /\ env \in Environments
    /\ genesisBlock = Undef
    /\ constants = <<>> /\ exceptions = <<>>
    /\ defaultConfig = Undef /\ customConfig = Undef /\ runtimeConfig = Undef
    /\ rawCommandLineConfig = Undef /\ commandLineConfig = Undef
    /\ appConfig = Undef /\ valid = Undef /\ exitCode = None /\ returned = None
    /\ CdIdle /\ ExIdle /\ MgIdle /\ VfIdle

otherVars == <<cdVars, exVars, mgVars, vfVars>>

\* process.exit(1) of loadJSONFile and of the validation branch; an exception
\* thrown by require is not caught and ends the process with status 1 too
Exit ==
    /\ pc' = "exited"
    /\ exitCode' = Num(1)

\* const genesisBlock = loadJSONFile(`./config/${network}/genesisBlock.json`)
LoadGenesisBlock ==
    /\ pc = "loadGenesisBlock"
    /\ \E file \in GenesisBlocks \cup {Failure} :
         IF file = Failure
         THEN Exit /\ UNCHANGED genesisBlock
         ELSE genesisBlock' = file /\ pc' = "requireBundles" /\ UNCHANGED exitCode
    /\ UNCHANGED <<inVars, constants, exceptions, defaultConfig, customConfig,
                   runtimeConfig, rawCommandLineConfig, commandLineConfig,
                   appConfig, valid, returned, otherVars>>

\* the four require()s of constants.js and exceptions.js
RequireBundles ==
    /\ pc = "requireBundles"
    /\ \E loaded \in BOOLEAN :
         IF loaded
         THEN /\ constants' = <<DefaultConstants, CustomConstants>>
              /\ exceptions' = <<DefaultExceptions, CustomExceptions>>
              /\ pc' = "loadDefaultConfig"
              /\ UNCHANGED exitCode
         ELSE Exit /\ UNCHANGED <<constants, exceptions>>
    /\ UNCHANGED <<inVars, genesisBlock, defaultConfig, customConfig,
                   runtimeConfig, rawCommandLineConfig, commandLineConfig,
                   appConfig, valid, returned, otherVars>>

\* const defaultConfig = loadJSONFile('config/default/config.json')
LoadDefaultConfig ==
    /\ pc = "loadDefaultConfig"
    /\ \E file \in DefaultConfigs \cup {Failure} :
         IF file = Failure
         THEN Exit /\ UNCHANGED defaultConfig
         ELSE defaultConfig' = file /\ pc' = "loadCustomConfig" /\ UNCHANGED exitCode
    /\ UNCHANGED <<inVars, genesisBlock, constants, exceptions, customConfig,
                   runtimeConfig, rawCommandLineConfig, commandLineConfig,
                   appConfig, valid, returned, otherVars>>

\* const customConfig = loadJSONFile(program.config || ... )
LoadCustomConfig ==
    /\ pc = "loadCustomConfig"
    /\ \E file \in CustomConfigs \cup {Failure} :
         IF file = Failure
         THEN Exit /\ UNCHANGED customConfig
         ELSE customConfig' = file /\ pc' = "buildSources" /\ UNCHANGED exitCode
    /\ UNCHANGED <<inVars, genesisBlock, constants, exceptions, defaultConfig,
                   runtimeConfig, rawCommandLineConfig, commandLineConfig,
                   appConfig, valid, returned, otherVars>>

\* const runtimeConfig = {...}; let commandLineConfig = {...}
BuildSources ==
    /\ pc = "buildSources"
    /\ \E nonce \in Nonces :
         runtimeConfig' =
             RuntimeConfig(Or(Or(program.network, env.ADAMANT_NETWORK), Str(<<"devnet">>)),
                           nonce, genesisBlock)
    /\ rawCommandLineConfig' = CommandLineConfig(program, env, customConfig, defaultConfig)
    /\ commandLineConfig' = rawCommandLineConfig'
    /\ pc' = "cleanDeep"
    /\ UNCHANGED <<inVars, ldVars, appConfig, valid, exitCode, returned, otherVars>>

\* commandLineConfig = cleanDeep(commandLineConfig)
PruneCommandLineConfig ==
    /\ pc = "cleanDeep"
    /\ commandLineConfig' = PrunedCommandLineConfig(commandLineConfig)
    /\ pc' = "merge"
    /\ UNCHANGED <<inVars, ldVars, runtimeConfig, rawCommandLineConfig,
                   appConfig, valid, exitCode, returned, otherVars>>

\* const appConfig = _.merge(defaultConfig, customConfig, runtimeConfig,
\* commandLineConfig): defaultConfig is the destination and becomes appConfig
MergeSources ==
    /\ pc = "merge"
    /\ appConfig' = merge(defaultConfig, <<customConfig, runtimeConfig, commandLineConfig>>)
    /\ pc' = "validate"
    /\ UNCHANGED <<inVars, ldVars, runtimeConfig, rawCommandLineConfig,
                   commandLineConfig, valid, exitCode, returned, otherVars>>

\* var valid = validator.validate(...); if (!valid) { ...; process.exit(1) }
ValidateSchema ==
    /\ pc = "validate"
    /\ valid' = Bool(Validate(appConfig))
    /\ pc' = StepAfterValidation(Validate(appConfig))
    /\ exitCode' = IF Validate(appConfig) THEN exitCode ELSE Num(1)
    /\ UNCHANGED <<inVars, ldVars, runtimeConfig, rawCommandLineConfig,
                   commandLineConfig, appConfig, returned, otherVars>>

\* appConfig.genesisBlock = genesisBlock
AttachGenesisBlock ==
    /\ pc = "attachGenesisBlock"
    /\ appConfig' = Assign(appConfig, "genesisBlock", genesisBlock)
    /\ pc' = "attachConstants"
    /\ UNCHANGED <<inVars, ldVars, runtimeConfig, rawCommandLineConfig,
                   commandLineConfig, valid, exitCode, returned, otherVars>>

\* appConfig.constants = _.merge(defaultConstants, customConstants)
AttachConstants ==
    /\ pc = "attachConstants"
    /\ appConfig' = Assign(appConfig, "constants", merge(constants[1], <<constants[2]>>))
    /\ pc' = "attachExceptions"
    /\ UNCHANGED <<inVars, ldVars, runtimeConfig, rawCommandLineConfig,
                   commandLineConfig, valid, exitCode, returned, otherVars>>

\* appConfig.exceptions = _.merge(defaultExceptions, customExceptions)
AttachExceptions ==
    /\ pc = "attachExceptions"
    /\ appConfig' = Assign(appConfig, "exceptions", merge(exceptions[1], <<exceptions[2]>>))
    /\ pc' = "validateForce"
    /\ UNCHANGED <<inVars, ldVars, runtimeConfig, rawCommandLineConfig,
                   commandLineConfig, valid, exitCode, returned, otherVars>>

\* validateForce(appConfig); return appConfig
ApplyValidateForce ==
    /\ pc = "validateForce"
    /\ appConfig' = validateForce(appConfig)
    /\ returned' = appConfig'
    /\ pc' = "returned"
    /\ UNCHANGED <<inVars, ldVars, runtimeConfig, rawCommandLineConfig,
                   commandLineConfig, valid, exitCode, otherVars>>

Next ==
    \/ LoadGenesisBlock
    \/ RequireBundles
    \/ LoadDefaultConfig
    \/ LoadCustomConfig
    \/ BuildSources
    \/ PruneCommandLineConfig
    \/ MergeSources
    \/ ValidateSchema
    \/ AttachGenesisBlock
    \/ AttachConstants
    \/ AttachExceptions
    \/ ApplyValidateForce

Spec == ConfigInit /\ [][Next]_vars

----------------------------------------------------------------------------
(* Properties of Config *)

\* every key of the path is present, whatever the value at its end
RECURSIVE HasPath(_, _)
HasPath(v, path) ==
    \/ path = <<>>
    \/ IsObj(v) /\ Head(path) \in DOMAIN v.o /\ HasPath(v.o[Head(path)], Tail(path))

\* the keys that commandLineConfig takes from a flag or environment variable
CommandLinePaths ==
    {<<"port">>, <<"address">>, <<"consoleLogLevel">>,
     <<"db", "database">>, <<"loading", "snapshotRound">>}

Unset == {Null, Undef, Str(<<>>)}

Merged == pc \in {"validate", "attachGenesisBlock", "attachConstants",
                  "attachExceptions", "validateForce", "returned"}
          \/ (pc = "exited" /\ valid = Bool(FALSE))

\* what the file-based and runtime sources merge to on their own
FileBased == merge(defaultConfig, <<customConfig, runtimeConfig>>)

\* C3: an unset command-line/environment value never overrides a file-based
\* value: every key of the command-line source whose raw value is null,
\* undefined or the empty string is absent from the pruned source, and the
\* merged config holds at that key the value that defaults, network config
\* and runtime values merge to, so a value set there never gives way to null,
\* undefined or the empty string.
C3_UnsetNeverOverrides ==
    Merged =>
        \A path \in CommandLinePaths :
            At(rawCommandLineConfig, path) \in Unset =>
                /\ ~HasPath(commandLineConfig, path)
                /\ At(appConfig, path) = At(FileBased, path)
                /\ At(FileBased, path) \notin Unset => At(appConfig, path) \notin Unset

\* neither --port nor the environment variable is set: the raw port is null,
\* it has been pruned, and the merged port is the network config's 6
C3_Witness ==
    /\ pc = "validate"
    /\ At(rawCommandLineConfig, <<"port">>) = Null
    /\ At(rawCommandLineConfig, <<"consoleLogLevel">>) = Str(<<>>)
    /\ At(rawCommandLineConfig, <<"address">>) = Undef
    /\ Get(customConfig, "port") = Num(6)
    /\ Get(defaultConfig, "port") = Num(5)
    /\ "port" \notin DOMAIN commandLineConfig.o
    /\ Get(appConfig, "port") = Num(6)

Force(configData) == At(configData, <<"forging", "force">>)

Known(configData) ==
    LET known == At(configData, <<"constants", "nethashes">>).a
    IN \E i \in 1..Len(known) : known[i] = Get(configData, "nethash")

SubStructures == {"genesisBlock", "constants", "exceptions"}

Attached(config) == SubStructures \cap DOMAIN config.o

Loaded ==
    /\ genesisBlock # Undef /\ constants # <<>> /\ exceptions # <<>>
    /\ defaultConfig # Undef /\ customConfig # Undef

\* C8: a run of Config ends either with the return of an object that passed
\* validation, then had genesisBlock, constants and exceptions attached, in
\* that order, then had the safety override applied, or with exit status 1
\* and no object returned; a failed load and a failed validation always end
\* the second way, and after a failed validation nothing is attached and the
\* override does not run.  No run is stuck anywhere else.
C8_NoPartialSuccess ==
    /\ pc \notin {"returned", "exited"} => exitCode = None /\ returned = None
    /\ pc = "returned" =>
          /\ exitCode = None /\ Loaded /\ valid = Bool(TRUE)
          /\ returned = appConfig
          /\ Attached(returned) = SubStructures
          /\ returned = validateForce(returned)
          /\ Force(returned) = Bool(TRUE) => ~Known(returned)
    /\ pc = "exited" =>
          /\ exitCode = Num(1) /\ returned = None
          /\ ~Loaded \/ valid = Bool(FALSE)
    /\ ~Loaded => pc \in {"loadGenesisBlock", "requireBundles", "loadDefaultConfig",
                            "loadCustomConfig", "exited"}
    /\ valid = Bool(FALSE) =>
          /\ pc = "exited"
          /\ Attached(appConfig) = {}
          /\ appConfig = merge(defaultConfig, <<customConfig, runtimeConfig, commandLineConfig>>)
    /\ pc = "attachGenesisBlock" => valid = Bool(TRUE) /\ Attached(appConfig) = {}
    /\ pc = "attachConstants" => Attached(appConfig) = {"genesisBlock"}
    /\ pc = "attachExceptions" => Attached(appConfig) = {"genesisBlock", "constants"}
    /\ pc = "validateForce" =>
          /\ Attached(appConfig) = SubStructures
          /\ Force(appConfig) = At(defaultConfig, <<"forging", "force">>)

\* validation failed on a port of 0: the process has exited with status 1,
\* nothing is attached and nothing returned
C8_Witness ==
    /\ pc = "exited"
    /\ Loaded
    /\ valid = Bool(FALSE)
    /\ Get(appConfig, "port") = Num(0)
    /\ exitCode = Num(1)
    /\ returned = None

\* the peers string that commandLineConfig parses
PeersString == Or(program.peers, env.ADAMANT_PEERS)

C10_CoverageFromEnvironment ==
    Merged =>
        /\ "coverage" \in DOMAIN commandLineConfig.o
        /\ Get(appConfig, "coverage") = (IF env.NODE_ENV = Str(<<"test">>) THEN Bool(TRUE) ELSE Bool(FALSE))

\* the marker is unset and the default file says true: the returned config
\* says false
C10_Witness ==
    /\ pc = "returned"
    /\ env.NODE_ENV = Undef
    /\ Get(defaultConfig, "coverage") = Bool(TRUE)
    /\ Get(returned, "coverage") = Bool(FALSE)

----------------------------------------------------------------------------
(* Specification of validateForce run twice on a validated config *)

MaxHashes == 2

Nethashes == {Str(<<"H1">>), Str(<<"H2">>), Str(<<"H3">>)}

ValidatedConfigs ==
    {Obj(("port" :> port)
         @@ ("nethash" :> nethash)
         @@ ("forging" :> Obj(("force" :> Bool(force)) @@ ("secret" :> Arr(<<>>))))
         @@ ("constants" :> Obj("nethashes" :> Arr(known)))) :
        port \in {Num(1), Num(2)}, nethash \in Nethashes, force \in BOOLEAN,
        known \in SeqsUpTo({Str(<<"H1">>), Str(<<"H2">>)}, MaxHashes)}

ForceInit ==
    /\ pc = "force"
    /\ vfBefore \in ValidatedConfigs
    /\ vfConfig = vfBefore
    /\ vfFirst = Undef
    /\ CdIdle /\ ExIdle /\ MgIdle /\ CfIdle

RunValidateForce ==
    /\ pc = "force"
    /\ vfConfig' = validateForce(vfConfig)
    /\ vfFirst' = vfConfig'
    /\ pc' = "forced"
    /\ UNCHANGED <<vfBefore, cdVars, exVars, mgVars, cfVars>>

RunValidateForceAgain ==
    /\ pc = "forced"
    /\ vfConfig' = validateForce(vfConfig)
    /\ pc' = "reforced"
    /\ UNCHANGED <<vfBefore, vfFirst, cdVars, exVars, mgVars, cfVars>>

ForceNext == RunValidateForce \/ RunValidateForceAgain

SpecForce == ForceInit /\ [][ForceNext]_vars

\* C7: after validateForce, forging.force is true exactly when it was true
\* before and nethash does not occur in constants.nethashes; it is never
\* flipped from false to true; no other field changes; a second run changes
\* nothing.
C7_ForceOnlyLowered ==
    pc \in {"forced", "reforced"} =>
        /\ Force(vfFirst) = Bool(Force(vfBefore) = Bool(TRUE) /\ ~Known(vfBefore))
        /\ Force(vfBefore) = Bool(FALSE) => Force(vfConfig) = Bool(FALSE)
        /\ WithForce(vfFirst, Force(vfBefore)) = vfBefore
        /\ pc = "reforced" => vfConfig = vfFirst

\* force was true and the nethash is the second of the known ones: the
\* override has lowered it and the second run has left it so
C7_Witness ==
    /\ pc = "reforced"
    /\ Force(vfBefore) = Bool(TRUE)
    /\ Get(vfBefore, "nethash") = Str(<<"H2">>)
    /\ At(vfBefore, <<"constants", "nethashes">>) = Arr(<<Str(<<"H1">>), Str(<<"H2">>)>>)
    /\ Force(vfConfig) = Bool(FALSE)

====
